---- MODULE Spec2Model ----
(***************************************************************************)
(* Playback coordinator of src/contexts/PlaybackContext.tsx                *)
(* (PlaybackProvider).                                                     *)
(*                                                                         *)
(* The provider is a React function component: sound, currentTrack,        *)
(* isPlaying, position, duration and playbackLock are useState cells, and  *)
(* play/pause/resume/stop/seek/playNext/playPrevious are closures created  *)
(* by a render.  A closure reads the state values of the render that       *)
(* created it; a setter call writes the cell.  A call made by a screen     *)
(* uses the closure of the latest render, so it reads the current cells;   *)
(* the retry that play schedules with setTimeout calls the `play` of the   *)
(* SAME closure again, so it reads the values captured by the original     *)
(* call (fields csound and clock of a task).                               *)
(*                                                                         *)
(* play is an async function: each `await` on the audio engine is a point  *)
(* where other calls, timers and engine callbacks interleave, so a play is *)
(* a task with a program counter.  The other operations are short and are  *)
(* one step each, the outcome of their engine calls chosen by \E.          *)
(*                                                                         *)
(* The audio engine (expo-av Audio.Sound) is external: a handle is loaded  *)
(* or not, playing or not, has the duration of its source, and may have a  *)
(* status callback installed.  Every engine call may fail.  unloadAsync    *)
(* marks the Sound not loaded before it talks to the native side, so a     *)
(* handle is not loaded after a release attempt even when the call throws. *)
(***************************************************************************)
EXTENDS Integers, Sequences, FiniteSets, TLC

\* ---- bounds -------------------------------------------------------------
MaxHandles == 2      \* engine handles (new Audio.Sound()) created in a run
MaxTasks == 1        \* play calls (with their retry chains) alive at once
MaxPos == 1          \* positions reported by the engine / sought: 0..MaxPos
\* the same for the specification of one whole retry chain
MaxSoloHandles == 3
MaxSoloTasks == 1
\* the same for the specification of racing retry chains
MaxChainHandles == 4
MaxChainTasks == 2
\* the same for a retry chain beside one other play
MaxRaceHandles == 3
MaxRaceTasks == 2
\* the browse screen's cache
MaxCacheIds == 1     \* identifiers the catalog hands out: 1..MaxCacheIds
MaxBatch == 2        \* records in one batch given to cacheTracks
MaxFetches == 2      \* fetchTracks calls past the fetchRef guard at once
MaxBackoffs == 1     \* pending re-fetch timers of rate-limited fetches
MaxPages == 2        \* pages (of 100 records) pageOffset counts up to
MaxResults == 1      \* records in one response of the catalog
MaxListFetches == 1
MaxList == 3         \* entries of the track list handed to the player screen

\* ---- program constants --------------------------------------------------
MaxRetries == 2      \* `retryCount < 2`

\* ---- tracks -------------------------------------------------------------
\* a URI is a scheme and a rest; the empty string has neither
NoUri == [scheme |-> "", path |-> 0]
RemoteUri(n) == [scheme |-> "https", path |-> n]
RelativeUri == [scheme |-> "", path |-> 9]

\* new URL(url) throws unless url is absolute, that is unless it has a scheme
isValidUrl(url) == url.scheme # ""

\* track.audio: absent, a bare URI string, or a locator object with
\* (or without) a uri member
NoAudio == [kind |-> "absent", uri |-> NoUri]
StringAudio(u) == [kind |-> "string", uri |-> u]
ObjectAudio(u) == [kind |-> "object", uri |-> u]

\* JavaScript truthiness of track.audio: undefined/null and "" are falsy,
\* any object is truthy
Truthy(audio) ==
    /\ audio.kind # "absent"
    /\ ~(audio.kind = "string" /\ audio.uri = NoUri)

\* typeof track.audio === 'string' ? { uri: track.audio } : track.audio
\* (a locator object without a uri member has uri NoUri)
AudioSource(track) == [uri |-> track.audio.uri]

\* !audioSource.uri || !isValidUrl(audioSource.uri)
InvalidSource(src) == src.uri = NoUri \/ ~isValidUrl(src.uri)

Track(id, audio) == [id |-> id, audio |-> audio]
TrackA == Track(1, StringAudio(RemoteUri(1)))
TrackB == Track(2, ObjectAudio(RemoteUri(2)))
TrackC == Track(3, StringAudio(RemoteUri(3)))
TrackNoAudio == Track(4, NoAudio)
TrackBadUri == Track(5, StringAudio(RelativeUri))
TrackNoUri == Track(6, ObjectAudio(NoUri))

\* the calls play(track, trackList) the screens make
PlayInputs ==
    { <<TrackB, <<TrackA, TrackB, TrackC>>>>,
      <<TrackNoAudio, <<>>>>,
      <<TrackBadUri, <<>>>> }

\* the retry chains are also started on a locator object without a uri
ChainInputs ==
    PlayInputs \cup { <<TrackNoUri, <<TrackA, TrackB, TrackC>>>> }

\* the engine reports the duration of the resource it loaded
DurationMillis(uri) == uri.path

\* trackData === null of the player screen
NoTrackData == Track(0, NoAudio)
\* currentTrack === null
NullTrack == [id |-> 0, audio |-> NoAudio, trackList |-> <<>>]
\* (a play that records the track without its list)
WithList_NoList(track, trackList) ==
    [id |-> track.id, audio |-> track.audio, trackList |-> <<>>]
\* { ...track, trackList }
WithList(track, trackList) ==
    [id |-> track.id, audio |-> track.audio, trackList |-> trackList]

\* ---- engine -------------------------------------------------------------
NotLoaded == [loaded |-> FALSE, playing |-> FALSE, dur |-> 0, cb |-> FALSE]
Loaded(uri) == [loaded |-> TRUE, playing |-> FALSE, dur |-> DurationMillis(uri), cb |-> FALSE]

unloadAsync(eng, h) == [eng EXCEPT ![h] = NotLoaded]

\* ---- the browse screen's cache ------------------------------------------
\* a record of the catalog may come without an id member: track.id is then
\* undefined
Undefined == 0

\* a track as fetchTracks builds it: { id: track.id, name: ..., ... }
CatalogTrack(id, name) == [id |-> id, name |-> name]

\* the catalog's tracks: one per identifier, one without an identifier, and
\* a later revision of track 1 (same identifier, other name)
CatalogTracks ==
    {CatalogTrack(id, 1) : id \in {Undefined} \cup 1..MaxCacheIds}
        \cup {CatalogTrack(1, 2)}

\* the batches cacheTracks is called with
Batches == UNION {[1..n -> CatalogTracks] : n \in 0..MaxBatch}

\* JSON.stringify of a track list: a member whose value is undefined is left
\* out of the text
JSONstringify(list) ==
    [k \in 1..Len(list) |->
        [hasId |-> list[k].id # Undefined,
         id |-> IF list[k].id # Undefined THEN list[k].id ELSE 0,
         name |-> list[k].name]]

\* JSON.parse of such a text: reading a member that is not there gives
\* undefined
JSONparse(text) ==
    [k \in 1..Len(text) |->
        CatalogTrack(IF text[k].hasId THEN text[k].id ELSE Undefined, text[k].name)]

\* AsyncStorage.getItem: null, or the text stored under the key
NoItem == [present |-> FALSE, text |-> <<>>]
Item(text) == [present |-> TRUE, text |-> text]

\* updateTimeoutRef: no timer set, or the list its callback will show
NoUpdate == [set |-> FALSE, list |-> <<>>]
Update(newTracks) == [set |-> TRUE, list |-> newTracks]

\* a fetchTracks call that has not returned: its append argument, the
\* pageOffset and tracks of the render it was created in, the records of the
\* response, and the list its cacheTracks read from storage
Args(append, offset, shown) ==
    [append |-> append, offset |-> offset, tracks |-> shown, results |-> <<>>,
     existing |-> <<>>]
\* no call
NoArgs == <<>>

\* ---- tasks --------------------------------------------------------------
NoTask ==
    [pc |-> "idle", track |-> TrackNoAudio, list |-> <<>>, rc |-> 0,
     csound |-> 0, clock |-> FALSE, h |-> 0, attempts |-> 0, allLoad |-> TRUE,
     via |-> "none", cur |-> 0, stopped |-> FALSE]

VARIABLES
    sound,          \* useState sound: the recorded handle, 0 for null
    currentTrack,   \* useState currentTrack
    isPlaying,      \* useState isPlaying
    position,       \* useState position
    duration,       \* useState duration
    playbackLock,   \* useState playbackLock
    engine,         \* the engine's handles
    nextHandle,     \* identity of the next new Audio.Sound()
    tasks,          \* the play calls in flight
    last,           \* the step just taken: operation, task, release attempts
    excl,           \* the task that alone has acted since its play was accepted
    mounted,        \* the provider is mounted (its cleanup has not run)
    cachedTracks,   \* AsyncStorage item 'cachedTracks' of the browse screen
    batch,          \* the argument of the latest cacheTracks call
    route,          \* the screen on top of the navigation stack
    trackData,      \* useState trackData of the player screen
    playerSound,    \* useState sound of the player screen
    loadRetry,      \* retryCount of the player screen's pending loadSound, or -1
    trackListData,  \* useState trackListData of the player screen
    loadTarget,     \* the track the pending loadSound was called with
    fetchRef,       \* fetchRef.current of the browse screen
    fetchCalls,     \* the fetchTracks calls past the guard: what each awaits
    backoffs,       \* the pending setTimeout re-fetches
    tracks,         \* useState tracks of the browse screen: the list shown
    pendingTracks,  \* the list the debounce timer of updateTimeoutRef will show
    pageOffset,     \* useState pageOffset, in pages of 100 records
    hasMoreTracks,  \* useState hasMoreTracks
    fetchArgs,      \* what each fetchTracks call past the guard works with
    backoffArgs,    \* the closures of the pending re-fetches, oldest first
    lastRequest     \* the offset of the latest request sent, or -1

vars == <<sound, currentTrack, isPlaying, position, duration, playbackLock,
          engine, nextHandle, tasks, last, excl, mounted, cachedTracks, batch,
          route, trackData, playerSound, loadRetry, trackListData, loadTarget,
          fetchRef, fetchCalls, backoffs,
          tracks, pendingTracks, pageOffset, hasMoreTracks, fetchArgs,
          backoffArgs, lastRequest>>

\* what no operation of the coordinator touches
player == <<route, trackData, playerSound, loadRetry, trackListData, loadTarget>>
listing == <<tracks, pendingTracks, pageOffset, hasMoreTracks, fetchArgs,
             backoffArgs, lastRequest>>
browse == <<fetchRef, fetchCalls, backoffs, listing>>
outside == <<mounted, cachedTracks, batch, player, browse>>

\* the handles and task slots of a run are fixed by its initial state
Handles == DOMAIN engine
TaskIds == DOMAIN tasks

\* the playback state the screens render
pb == <<sound, currentTrack, isPlaying, position, duration>>

\* the step just taken; threw: the operation ended by rejecting to its caller
Event(op, i, rel) == [op |-> op, i |-> i, rel |-> rel, threw |-> FALSE]
Outcome(event, threw) == [event EXCEPT !.threw = threw]

\* (engine calls made outside any try block: a rejection reaches the caller)
TryCatch_None(rejected) == rejected
\* try { ... } catch (error) { console.error(...) }: a rejection of an engine
\* call inside the try block ends in the catch block, which does not rethrow
TryCatch(rejected) == FALSE
\* a call of play: its arguments, and for the reader of a trace where it came
\* from (a screen, playNext or playPrevious) and the track current at the call
Call(track, list, via, cur) ==
    [NoTask EXCEPT !.track = track, !.list = list, !.via = via, !.cur = cur]

Init ==
    /\ sound = 0
    /\ currentTrack = NullTrack
    /\ isPlaying = FALSE
    /\ position = 0
    /\ duration = 0
    /\ playbackLock = FALSE
    /\ engine = [h \in 1..MaxHandles |-> NotLoaded]
    /\ nextHandle = 1
    /\ tasks = [i \in 1..MaxTasks |-> NoTask]
    /\ last = Event("init", 0, 0)
    /\ excl = 0
    /\ mounted = TRUE
    /\ cachedTracks = NoItem
    /\ batch = <<>>
    /\ route = "play"
    /\ trackData = NoTrackData
    /\ playerSound = 0
    /\ loadRetry = -1
    /\ trackListData = <<>>
    /\ loadTarget = NoTrackData
    /\ fetchRef = FALSE
    /\ fetchCalls = [c \in 1..MaxFetches |-> "idle"]
    /\ backoffs = 0
    /\ tracks = <<>>
    /\ pendingTracks = NoUpdate
    /\ pageOffset = 0
    /\ hasMoreTracks = TRUE
    /\ fetchArgs = [c \in 1..MaxFetches |-> NoArgs]
    /\ backoffArgs = <<>>
    /\ lastRequest = -1

\* an operation that returns without touching anything
Skip(op) ==
    /\ last' = Event(op, 0, 0)
    /\ excl' = 0
    /\ UNCHANGED <<sound, currentTrack, isPlaying, position, duration,
                   playbackLock, engine, nextHandle, tasks, outside>>

Own(i) == IF excl = i THEN i ELSE 0

\* for the reader of a trace: the plays in flight that a stop() from a screen
\* has overtaken, until a screen starts the next play
MarkStopped(tks) ==
    [i \in DOMAIN tks |->
        IF tks[i] = NoTask THEN NoTask ELSE [tks[i] EXCEPT !.stopped = TRUE]]
ClearStopped(tks) ==
    [i \in DOMAIN tks |-> [tks[i] EXCEPT !.stopped = FALSE]]

\* ---- stop ---------------------------------------------------------------
\* the ways the engine can answer stop's calls on handle s
StopOutcomes(s, eng) ==
    IF s = 0 THEN {"none"}
    ELSE {"ok", "statusFail"} \cup
         (IF eng[s].loaded THEN {"stopFail", "unloadFail"} ELSE {})

\* (a stop without the release of its finally block)
StopReleases_NoCleanup(s, eng, o) ==
    IF s = 0 THEN 0
    ELSE (IF o \in {"ok", "unloadFail"} /\ eng[s].loaded THEN 1 ELSE 0)
\* number of unloadAsync calls stop makes on s: the one after stopAsync
\* (status loaded, stopAsync succeeded) and the one in the finally block
StopReleases(s, eng, o) ==
    IF s = 0 THEN 0
    ELSE (IF o \in {"ok", "unloadFail"} /\ eng[s].loaded THEN 1 ELSE 0) + 1

\* stop() rejects: neither from its try block (status, stopAsync and
\* unloadAsync, with a catch block) nor from the unloadAsync of the finally
\* block (in a try block of its own)
StopThrows(s, eng, o) ==
    /\ s # 0
    /\ \/ TryCatch(o \in {"statusFail", "stopFail", "unloadFail"})
       \/ TryCatch(o = "unloadFail")

\* the engine after stop() on handle s
StopEngine(s, eng, o) ==
    IF s = 0 THEN eng
    ELSE IF StopReleases(s, eng, o) > 0 THEN unloadAsync(eng, s) ELSE eng

\* (an early return of stop that forgets setDuration(0))
StopResetNoHandle_KeepDuration ==
    /\ sound' = 0
    /\ isPlaying' = FALSE
    /\ position' = 0
    /\ UNCHANGED duration
    /\ currentTrack' = NullTrack
\* the five setters of the branch `if (!sound)`
StopResetNoHandle ==
    /\ sound' = 0
    /\ isPlaying' = FALSE
    /\ position' = 0
    /\ duration' = 0
    /\ currentTrack' = NullTrack

\* the five setters of the finally block
StopResetCleanup ==
    /\ sound' = 0
    /\ isPlaying' = FALSE
    /\ position' = 0
    /\ duration' = 0
    /\ currentTrack' = NullTrack

\* the state after stop() of a closure whose `sound` is s
StopReset(s) == IF s = 0 THEN StopResetNoHandle ELSE StopResetCleanup

\* stop() of the closure of the latest render, so `sound` is the current
\* cell: its engine calls and setters
StopSteps(o) ==
    /\ o \in StopOutcomes(sound, engine)
    /\ engine' = StopEngine(sound, engine, o)
    /\ StopReset(sound)
    /\ last' = Outcome(Event(IF sound = 0 THEN "stop_nohandle" ELSE "stop", 0,
                             StopReleases(sound, engine, o)),
                       StopThrows(sound, engine, o))
    /\ excl' = 0
    /\ UNCHANGED <<playbackLock, nextHandle, outside>>

\* stop(): it touches neither a play in flight nor its timer
Stop(o) ==
    /\ StopSteps(o)
    /\ UNCHANGED tasks

\* the same stop(), with the plays it overtakes marked for the reader
StopOvertaking(o) ==
    /\ StopSteps(o)
    /\ tasks' = MarkStopped(tasks)

\* ---- play ---------------------------------------------------------------
\* the name of a step of a call that came from a screen, playNext or
\* playPrevious
Label(via, what) ==
    IF via = "next" THEN
        (IF what = "enter" THEN "next_enter"
         ELSE IF what = "noaudio" THEN "next_noaudio" ELSE "next_locked")
    ELSE IF via = "previous" THEN
        (IF what = "enter" THEN "previous_enter"
         ELSE IF what = "noaudio" THEN "previous_noaudio" ELSE "previous_locked")
    ELSE
        (IF what = "enter" THEN "play_enter"
         ELSE IF what = "noaudio" THEN "play_noaudio" ELSE "play_locked")

FreeSlots == {i \in TaskIds : tasks[i] = NoTask}
FreeSlot == CHOOSE i \in FreeSlots : \A j \in FreeSlots : i <= j

\* play(track, trackList) up to its first await: the two guards, then the
\* lock is taken and stop() is called
PlayEnter(track, list, via, cur) ==
    IF ~Truthy(track.audio) THEN Skip(Label(via, "noaudio"))
    ELSE IF playbackLock THEN Skip(Label(via, "locked"))
    ELSE /\ FreeSlots # {}
         /\ LET i == FreeSlot
                tk == [Call(track, list, via, cur) EXCEPT
                         !.pc = "stopping", !.csound = sound,
                         !.clock = playbackLock, !.attempts = 1]
            IN /\ tasks' = [ClearStopped(tasks) EXCEPT ![i] = tk]
               /\ last' = Event(Label(via, "enter"), i, 0)
               /\ excl' = i
         /\ playbackLock' = TRUE
         /\ UNCHANGED <<sound, currentTrack, isPlaying, position, duration,
                        engine, nextHandle, outside>>

Play(track, list) == PlayEnter(track, list, "play", currentTrack.id)

\* (a retry bound that is off by one: retryCount <= 2)
CatchTask_OneMore(tk) ==
    IF tk.rc <= MaxRetries THEN [tk EXCEPT !.pc = "retrywait", !.h = 0] ELSE NoTask
\* the catch and finally blocks of play for the attempt of task record tk
CatchTask(tk) ==
    IF tk.rc < MaxRetries THEN [tk EXCEPT !.pc = "retrywait", !.h = 0] ELSE NoTask
\* (a play without the finally block)
CatchLock_NoFinally(tk, lock) ==
    IF tk.rc < MaxRetries THEN lock ELSE FALSE
\* the lock after the catch and finally blocks
CatchLock(tk, lock) ==
    IF tk.rc < MaxRetries
    THEN (IF tk.rc = 0 THEN FALSE ELSE lock)
    ELSE FALSE
CatchOp(tk) == IF tk.rc < MaxRetries THEN "play_retry" ELSE "play_giveup"

PlayCatch(i, tk) ==
    /\ sound' = 0
    /\ tasks' = [tasks EXCEPT ![i] = CatchTask(tk)]
    /\ playbackLock' = CatchLock(tk, playbackLock)
    /\ last' = Outcome(Event(CatchOp(tk), i, 0), TryCatch(TRUE))
    /\ excl' = Own(i)

\* stop() returns inside play, then new Audio.Sound() and the source check
PlayTeardown(i, o) ==
    LET tk == tasks[i] IN
    /\ tk.pc = "stopping"
    /\ nextHandle \in Handles
    /\ o \in StopOutcomes(tk.csound, engine)
    /\ engine' = StopEngine(tk.csound, engine, o)
    /\ StopReset(tk.csound)
    /\ nextHandle' = IF StopThrows(tk.csound, engine, o) THEN nextHandle
                     ELSE nextHandle + 1
    /\ UNCHANGED outside
    /\ IF StopThrows(tk.csound, engine, o)
       THEN \* `await stop()` is not inside play's try block
            /\ tasks' = [tasks EXCEPT ![i] = NoTask]
            /\ last' = Outcome(Event("play_threw", i, 0), TRUE)
            /\ excl' = Own(i)
            /\ UNCHANGED playbackLock
       ELSE IF InvalidSource(AudioSource(tk.track))
       THEN PlayCatch(i, [tk EXCEPT !.allLoad = FALSE])
       ELSE /\ tasks' = [tasks EXCEPT ![i] = [tk EXCEPT !.pc = "loading", !.h = nextHandle]]
            /\ last' = Event("play_created", i, 0)
            /\ excl' = Own(i)
            /\ UNCHANGED playbackLock

\* await newSound.loadAsync(audioSource); setSound(newSound)
PlayLoad(i, ok) ==
    LET tk == tasks[i] IN
    /\ tk.pc = "loading"
    /\ IF ok
       THEN /\ engine' = [engine EXCEPT ![tk.h] = Loaded(AudioSource(tk.track).uri)]
            /\ sound' = tk.h
            /\ tasks' = [tasks EXCEPT ![i].pc = "status"]
            /\ last' = Event("play_loaded", i, 0)
            /\ excl' = Own(i)
            /\ UNCHANGED playbackLock
       ELSE /\ PlayCatch(i, tk)
            /\ UNCHANGED engine
    /\ UNCHANGED <<currentTrack, isPlaying, position, duration, nextHandle, outside>>

\* await newSound.getStatusAsync(); isLoaded check; setDuration
PlayStatus(i, ok) ==
    LET tk == tasks[i] IN
    /\ tk.pc = "status"
    /\ IF ok /\ engine[tk.h].loaded
       THEN /\ duration' = engine[tk.h].dur
            /\ tasks' = [tasks EXCEPT ![i].pc = "starting"]
            /\ last' = Event("play_status", i, 0)
            /\ excl' = Own(i)
            /\ UNCHANGED <<sound, playbackLock>>
       ELSE /\ PlayCatch(i, [tk EXCEPT !.allLoad = FALSE])
            /\ UNCHANGED duration
    /\ UNCHANGED <<currentTrack, isPlaying, position, engine, nextHandle, outside>>

\* await newSound.playAsync(); the state of a started track; the status
\* callback; the finally block
PlayStart(i, ok) ==
    LET tk == tasks[i] IN
    /\ tk.pc = "starting"
    /\ IF ok /\ engine[tk.h].loaded
       THEN /\ engine' = [engine EXCEPT ![tk.h].playing = TRUE, ![tk.h].cb = TRUE]
            /\ isPlaying' = TRUE
            /\ position' = 0
            /\ currentTrack' = WithList(tk.track, tk.list)
            /\ playbackLock' = IF tk.rc = 0 THEN FALSE ELSE playbackLock
            /\ tasks' = [tasks EXCEPT ![i] = NoTask]
            /\ last' = Event("play_ok", i, 0)
            /\ excl' = Own(i)
            /\ UNCHANGED sound
       ELSE /\ PlayCatch(i, [tk EXCEPT !.allLoad = FALSE])
            /\ UNCHANGED <<engine, isPlaying, position, currentTrack>>
    /\ UNCHANGED <<duration, nextHandle, outside>>

\* (a retry that is guarded by the lock as it is when the timer fires)
RetryGuard_Live(tk, lock) == lock
\* the playbackLock the guard of a retry reads: that of the closure of the
\* original call
RetryGuard(tk, lock) == tk.clock

\* the setTimeout callback: setPlaybackLock(false); play(track, trackList,
\* retryCount + 1) of the same closure, up to its first await
RetryTimer(i) ==
    LET tk == tasks[i] IN
    /\ tk.pc = "retrywait"
    /\ IF ~Truthy(tk.track.audio) \/ RetryGuard(tk, playbackLock)
       THEN /\ playbackLock' = FALSE
            /\ tasks' = [tasks EXCEPT ![i] = NoTask]
            /\ last' = Event("play_locked", i, 0)
       ELSE /\ playbackLock' = TRUE
            /\ tasks' = [tasks EXCEPT ![i] =
                           [tk EXCEPT !.pc = "stopping", !.rc = @ + 1, !.attempts = @ + 1]]
            /\ last' = Event("play_reenter", i, 0)
    /\ excl' = Own(i)
    /\ UNCHANGED <<sound, currentTrack, isPlaying, position, duration, engine,
                   nextHandle, outside>>

\* ---- pause, resume, seek ------------------------------------------------
\* (a seek without the guard `if (!sound) return`)
Seek_NoGuard(value, ok) ==
    /\ IF ok
       THEN position' = value
       ELSE UNCHANGED position
    /\ last' = Event(IF sound = 0 THEN "seek_nohandle" ELSE "seek", 0, 0)
    /\ excl' = 0
    /\ UNCHANGED <<sound, currentTrack, isPlaying, duration, playbackLock,
                   engine, nextHandle, tasks, outside>>

Pause(ok) ==
    IF sound = 0 THEN Skip("pause_nohandle")
    ELSE /\ IF ok /\ engine[sound].loaded /\ isPlaying
            THEN /\ engine' = [engine EXCEPT ![sound].playing = FALSE]
                 /\ isPlaying' = FALSE
            ELSE UNCHANGED <<engine, isPlaying>>
         /\ last' = Outcome(Event("pause", 0, 0), TryCatch(~ok))
         /\ excl' = 0
         /\ UNCHANGED <<sound, currentTrack, position, duration, playbackLock,
                        nextHandle, tasks, outside>>

\* (a resume that sets the flag whether or not playAsync succeeded)
Resume_IgnoresFailure(ok) ==
    IF sound = 0 THEN Skip("resume_nohandle")
    ELSE /\ IF engine[sound].loaded /\ ~isPlaying
            THEN /\ engine' = [engine EXCEPT ![sound].playing = ok]
                 /\ isPlaying' = TRUE
            ELSE UNCHANGED <<engine, isPlaying>>
         /\ last' = Outcome(Event("resume", 0, 0), TryCatch(~ok))
         /\ excl' = 0
         /\ UNCHANGED <<sound, currentTrack, position, duration, playbackLock,
                        nextHandle, tasks, outside>>

Resume(ok) ==
    IF sound = 0 THEN Skip("resume_nohandle")
    ELSE /\ IF ok /\ engine[sound].loaded /\ ~isPlaying
            THEN /\ engine' = [engine EXCEPT ![sound].playing = TRUE]
                 /\ isPlaying' = TRUE
            ELSE UNCHANGED <<engine, isPlaying>>
         /\ last' = Outcome(Event("resume", 0, 0), TryCatch(~ok))
         /\ excl' = 0
         /\ UNCHANGED <<sound, currentTrack, position, duration, playbackLock,
                        nextHandle, tasks, outside>>

\* (a seek that mirrors the value whether or not the engine calls succeeded)
Seek_IgnoresFailure(value, ok) ==
    IF sound = 0 THEN Skip("seek_nohandle")
    ELSE /\ position' = value
         /\ last' = Outcome(Event("seek", 0, 0), TryCatch(~ok))
         /\ excl' = 0
         /\ UNCHANGED <<sound, currentTrack, isPlaying, duration, playbackLock,
                        engine, nextHandle, tasks, outside>>

Seek(value, ok) ==
    IF sound = 0 THEN Skip("seek_nohandle")
    ELSE /\ IF ok /\ engine[sound].loaded
            THEN position' = value
            ELSE UNCHANGED position
         /\ last' = Outcome(Event("seek", 0, 0), TryCatch(~ok))
         /\ excl' = 0
         /\ UNCHANGED <<sound, currentTrack, isPlaying, duration, playbackLock,
                        engine, nextHandle, tasks, outside>>

\* ---- playNext, playPrevious ---------------------------------------------
\* trackList.findIndex(t => t.id === id): 0-based, -1 when absent
RECURSIVE findIndexFrom(_, _, _)
findIndexFrom(list, id, k) ==
    IF k >= Len(list) THEN -1
    ELSE IF list[k + 1].id = id THEN k
    ELSE findIndexFrom(list, id, k + 1)
findIndex(list, id) == findIndexFrom(list, id, 0)

\* (findIndex's result used as it is, -1 included)
CurrentIndex_Raw(ct) == findIndex(ct.trackList, ct.id)
\* (playNext and playPrevious that ignore the index found and start from 0)
CurrentIndex_Zero(ct) == 0
\* the index playNext and playPrevious start from
CurrentIndex(ct) ==
    LET currentIndex == findIndex(ct.trackList, ct.id)
    IN IF currentIndex = -1 THEN 0 ELSE currentIndex

\* (a playNext that wraps around to the first entry after the last)
PlayNext_Wrap ==
    IF Len(currentTrack.trackList) = 0 \/ playbackLock
    THEN Skip("next_skip")
    ELSE LET currentIndex == CurrentIndex(currentTrack) IN
         IF currentIndex < Len(currentTrack.trackList) - 1
         THEN PlayEnter(Track(currentTrack.trackList[currentIndex + 2].id,
                              currentTrack.trackList[currentIndex + 2].audio),
                        currentTrack.trackList, "next", currentTrack.id)
         ELSE PlayEnter(Track(currentTrack.trackList[1].id,
                              currentTrack.trackList[1].audio),
                        currentTrack.trackList, "next", currentTrack.id)

PlayNext ==
    IF Len(currentTrack.trackList) = 0 \/ playbackLock
    THEN Skip("next_skip")
    ELSE LET currentIndex == CurrentIndex(currentTrack) IN
         IF currentIndex < Len(currentTrack.trackList) - 1
         THEN PlayEnter(Track(currentTrack.trackList[currentIndex + 2].id,
                              currentTrack.trackList[currentIndex + 2].audio),
                        currentTrack.trackList, "next", currentTrack.id)
         ELSE Skip("next_end")

\* (a playPrevious that clears the playing flag when its guard turns it away)
PlayPrevious_SkipClearsFlag ==
    IF Len(currentTrack.trackList) = 0 \/ playbackLock
    THEN /\ isPlaying' = FALSE
         /\ last' = Event("previous_skip", 0, 0)
         /\ UNCHANGED <<sound, currentTrack, position, duration, playbackLock,
                        engine, nextHandle, tasks, excl, outside>>
    ELSE LET currentIndex == CurrentIndex(currentTrack) IN
         IF currentIndex > 0
         THEN PlayEnter(Track(currentTrack.trackList[currentIndex].id,
                              currentTrack.trackList[currentIndex].audio),
                        currentTrack.trackList, "previous", currentTrack.id)
         ELSE Skip("previous_end")

PlayPrevious ==
    IF Len(currentTrack.trackList) = 0 \/ playbackLock
    THEN Skip("previous_skip")
    ELSE LET currentIndex == CurrentIndex(currentTrack) IN
         IF currentIndex > 0
         THEN PlayEnter(Track(currentTrack.trackList[currentIndex].id,
                              currentTrack.trackList[currentIndex].audio),
                        currentTrack.trackList, "previous", currentTrack.id)
         ELSE Skip("previous_end")

\* ---- engine callback ----------------------------------------------------
\* the callback installed by setOnPlaybackStatusUpdate, on a tick of handle h
StatusUpdate(h, positionMillis) ==
    /\ engine[h].cb
    /\ IF engine[h].loaded
       THEN /\ position' = positionMillis
            /\ duration' = engine[h].dur
            /\ isPlaying' = engine[h].playing
       ELSE UNCHANGED <<position, duration, isPlaying>>
    /\ last' = Event("status", 0, 0)
    /\ UNCHANGED <<sound, currentTrack, playbackLock, engine, nextHandle, tasks, excl,
                   outside>>

Next ==
    \/ \E in \in PlayInputs : Play(in[1], in[2])
    \/ \E i \in TaskIds, o \in {"none", "ok", "statusFail", "stopFail", "unloadFail"} :
          PlayTeardown(i, o)
    \/ \E i \in TaskIds, ok \in BOOLEAN : PlayLoad(i, ok)
    \/ \E i \in TaskIds, ok \in BOOLEAN : PlayStatus(i, ok)
    \/ \E i \in TaskIds, ok \in BOOLEAN : PlayStart(i, ok)
    \/ \E i \in TaskIds : RetryTimer(i)
    \/ \E o \in {"none", "ok", "statusFail", "stopFail", "unloadFail"} : Stop(o)
    \/ \E ok \in BOOLEAN : Pause(ok)
    \/ \E ok \in BOOLEAN : Resume(ok)
    \/ \E value \in 0..MaxPos, ok \in BOOLEAN : Seek(value, ok)
    \/ PlayNext
    \/ PlayPrevious
    \/ \E h \in Handles, positionMillis \in 0..MaxPos : StatusUpdate(h, positionMillis)

Spec == Init /\ [][Next]_vars

\* ---- retry chains --------------------------------------------------------
\* the play calls, their steps and timers, and stop.  One chain needs a
\* handle per attempt; two chains at once need one more.
InitSolo ==
    /\ sound = 0
    /\ currentTrack = NullTrack
    /\ isPlaying = FALSE
    /\ position = 0
    /\ duration = 0
    /\ playbackLock = FALSE
    /\ engine = [h \in 1..MaxSoloHandles |-> NotLoaded]
    /\ nextHandle = 1
    /\ tasks = [i \in 1..MaxSoloTasks |-> NoTask]
    /\ last = Event("init", 0, 0)
    /\ excl = 0
    /\ mounted = TRUE
    /\ cachedTracks = NoItem
    /\ batch = <<>>
    /\ route = "play"
    /\ trackData = NoTrackData
    /\ playerSound = 0
    /\ loadRetry = -1
    /\ trackListData = <<>>
    /\ loadTarget = NoTrackData
    /\ fetchRef = FALSE
    /\ fetchCalls = [c \in 1..MaxFetches |-> "idle"]
    /\ backoffs = 0
    /\ tracks = <<>>
    /\ pendingTracks = NoUpdate
    /\ pageOffset = 0
    /\ hasMoreTracks = TRUE
    /\ fetchArgs = [c \in 1..MaxFetches |-> NoArgs]
    /\ backoffArgs = <<>>
    /\ lastRequest = -1

InitChains ==
    /\ sound = 0
    /\ currentTrack = NullTrack
    /\ isPlaying = FALSE
    /\ position = 0
    /\ duration = 0
    /\ playbackLock = FALSE
    /\ engine = [h \in 1..MaxChainHandles |-> NotLoaded]
    /\ nextHandle = 1
    /\ tasks = [i \in 1..MaxChainTasks |-> NoTask]
    /\ last = Event("init", 0, 0)
    /\ excl = 0
    /\ mounted = TRUE
    /\ cachedTracks = NoItem
    /\ batch = <<>>
    /\ route = "play"
    /\ trackData = NoTrackData
    /\ playerSound = 0
    /\ loadRetry = -1
    /\ trackListData = <<>>
    /\ loadTarget = NoTrackData
    /\ fetchRef = FALSE
    /\ fetchCalls = [c \in 1..MaxFetches |-> "idle"]
    /\ backoffs = 0
    /\ tracks = <<>>
    /\ pendingTracks = NoUpdate
    /\ pageOffset = 0
    /\ hasMoreTracks = TRUE
    /\ fetchArgs = [c \in 1..MaxFetches |-> NoArgs]
    /\ backoffArgs = <<>>
    /\ lastRequest = -1

NextChains ==
    \/ \E in \in ChainInputs : Play(in[1], in[2])
    \/ \E i \in TaskIds, o \in {"none", "ok", "statusFail", "stopFail", "unloadFail"} :
          PlayTeardown(i, o)
    \/ \E i \in TaskIds, ok \in BOOLEAN : PlayLoad(i, ok)
    \/ \E i \in TaskIds, ok \in BOOLEAN : PlayStatus(i, ok)
    \/ \E i \in TaskIds, ok \in BOOLEAN : PlayStart(i, ok)
    \/ \E i \in TaskIds : RetryTimer(i)
    \/ \E o \in {"none", "ok", "statusFail", "stopFail", "unloadFail"} : Stop(o)

SpecSolo == InitSolo /\ [][NextChains]_vars

\* a retry chain beside one other play, on the tracks the screens play
InitRace ==
    /\ sound = 0
    /\ currentTrack = NullTrack
    /\ isPlaying = FALSE
    /\ position = 0
    /\ duration = 0
    /\ playbackLock = FALSE
    /\ engine = [h \in 1..MaxRaceHandles |-> NotLoaded]
    /\ nextHandle = 1
    /\ tasks = [i \in 1..MaxRaceTasks |-> NoTask]
    /\ last = Event("init", 0, 0)
    /\ excl = 0
    /\ mounted = TRUE
    /\ cachedTracks = NoItem
    /\ batch = <<>>
    /\ route = "play"
    /\ trackData = NoTrackData
    /\ playerSound = 0
    /\ loadRetry = -1
    /\ trackListData = <<>>
    /\ loadTarget = NoTrackData
    /\ fetchRef = FALSE
    /\ fetchCalls = [c \in 1..MaxFetches |-> "idle"]
    /\ backoffs = 0
    /\ tracks = <<>>
    /\ pendingTracks = NoUpdate
    /\ pageOffset = 0
    /\ hasMoreTracks = TRUE
    /\ fetchArgs = [c \in 1..MaxFetches |-> NoArgs]
    /\ backoffArgs = <<>>
    /\ lastRequest = -1

NextRace ==
    \/ \E in \in PlayInputs : Play(in[1], in[2])
    \/ \E i \in TaskIds, o \in {"none", "ok", "statusFail", "stopFail", "unloadFail"} :
          PlayTeardown(i, o)
    \/ \E i \in TaskIds, ok \in BOOLEAN : PlayLoad(i, ok)
    \/ \E i \in TaskIds, ok \in BOOLEAN : PlayStatus(i, ok)
    \/ \E i \in TaskIds, ok \in BOOLEAN : PlayStart(i, ok)
    \/ \E i \in TaskIds : RetryTimer(i)
    \/ \E o \in {"none", "ok", "statusFail", "stopFail", "unloadFail"} : Stop(o)

SpecRace == InitRace /\ [][NextRace]_vars

\* the same with the status callbacks of the engine
NextTicks ==
    \/ \E in \in PlayInputs : Play(in[1], in[2])
    \/ \E i \in TaskIds, o \in {"none", "ok", "statusFail", "stopFail", "unloadFail"} :
          PlayTeardown(i, o)
    \/ \E i \in TaskIds, ok \in BOOLEAN : PlayLoad(i, ok)
    \/ \E i \in TaskIds, ok \in BOOLEAN : PlayStatus(i, ok)
    \/ \E i \in TaskIds, ok \in BOOLEAN : PlayStart(i, ok)
    \/ \E i \in TaskIds : RetryTimer(i)
    \/ \E o \in {"none", "ok", "statusFail", "stopFail", "unloadFail"} : Stop(o)
    \/ \E h \in Handles, positionMillis \in 0..MaxPos : StatusUpdate(h, positionMillis)

SpecTicks == InitRace /\ [][NextTicks]_vars

SpecChains == InitChains /\ [][NextChains]_vars

\* ---- unmount --------------------------------------------------------------
\* the effect with the empty dependency list runs after the first render and
\* its cleanup keeps the `stop` of that render, whose `sound` is the initial
\* useState(null)
FirstRenderSound == 0

\* the cleanup of the effect: stop() of the first render
Unmount ==
    /\ mounted
    /\ mounted' = FALSE
    /\ engine' = StopEngine(FirstRenderSound, engine, "none")
    /\ StopReset(FirstRenderSound)
    /\ last' = Event("unmount", 0, StopReleases(FirstRenderSound, engine, "none"))
    /\ excl' = 0
    /\ UNCHANGED <<playbackLock, nextHandle, tasks, cachedTracks, batch, player,
                   browse>>

\* the screens call the coordinator while it is mounted; a play in flight,
\* its timer and the engine's callbacks go on after the unmount
NextUnmount ==
    \/ mounted /\ \E in \in PlayInputs : Play(in[1], in[2])
    \/ \E i \in TaskIds, o \in {"none", "ok", "statusFail", "stopFail", "unloadFail"} :
          PlayTeardown(i, o)
    \/ \E i \in TaskIds, ok \in BOOLEAN : PlayLoad(i, ok)
    \/ \E i \in TaskIds, ok \in BOOLEAN : PlayStatus(i, ok)
    \/ \E i \in TaskIds, ok \in BOOLEAN : PlayStart(i, ok)
    \/ \E i \in TaskIds : RetryTimer(i)
    \/ mounted /\ \E o \in {"none", "ok", "statusFail", "stopFail", "unloadFail"} : Stop(o)
    \/ mounted /\ \E ok \in BOOLEAN : Pause(ok)
    \/ mounted /\ \E ok \in BOOLEAN : Resume(ok)
    \/ mounted /\ \E value \in 0..MaxPos, ok \in BOOLEAN : Seek(value, ok)
    \/ mounted /\ PlayNext
    \/ mounted /\ PlayPrevious
    \/ \E h \in Handles, positionMillis \in 0..MaxPos : StatusUpdate(h, positionMillis)
    \/ Unmount

SpecUnmount == Init /\ [][NextUnmount]_vars

\* ---- stop beside a play in flight ---------------------------------------
NextStop ==
    \/ \E in \in PlayInputs : Play(in[1], in[2])
    \/ \E i \in TaskIds, o \in {"none", "ok", "statusFail", "stopFail", "unloadFail"} :
          PlayTeardown(i, o)
    \/ \E i \in TaskIds, ok \in BOOLEAN : PlayLoad(i, ok)
    \/ \E i \in TaskIds, ok \in BOOLEAN : PlayStatus(i, ok)
    \/ \E i \in TaskIds, ok \in BOOLEAN : PlayStart(i, ok)
    \/ \E i \in TaskIds : RetryTimer(i)
    \/ \E o \in {"none", "ok", "statusFail", "stopFail", "unloadFail"} : StopOvertaking(o)
    \/ \E ok \in BOOLEAN : Pause(ok)
    \/ \E ok \in BOOLEAN : Resume(ok)
    \/ \E value \in 0..MaxPos, ok \in BOOLEAN : Seek(value, ok)
    \/ PlayNext
    \/ PlayPrevious
    \/ \E h \in Handles, positionMillis \in 0..MaxPos : StatusUpdate(h, positionMillis)

SpecStop == Init /\ [][NextStop]_vars

\* ---- cacheTracks ----------------------------------------------------------
\* .filter((track, index, self) =>
\*     self.findIndex(t => t.id === track.id) === index)
RECURSIVE DedupeFrom(_, _)
DedupeFrom(self, index) ==
    IF index >= Len(self) THEN <<>>
    ELSE (IF findIndex(self, self[index + 1].id) = index
          THEN <<self[index + 1]>> ELSE <<>>) \o DedupeFrom(self, index + 1)
\* (a merge that keeps every entry)
Dedupe_KeepAll(self) == self
\* the entries whose identifier does not occur earlier in the list
Dedupe(self) == DedupeFrom(self, 0)

\* cached ? JSON.parse(cached) : []
Existing(cached) == IF cached.present THEN JSONparse(cached.text) ELSE <<>>

\* cacheTracks(newTracks): getItem, merge, setItem; either storage call may
\* reject, and the catch block then leaves the item as it was.  rel counts
\* the successful runs in a row with the same batch, up to 2.
CacheTracksSteps(newTracks, o) ==
    /\ batch' = newTracks
    /\ IF o = "ok"
       THEN /\ cachedTracks' =
                 Item(JSONstringify(Dedupe(Existing(cachedTracks) \o newTracks)))
            /\ last' = Event("cache_ok", 0,
                             IF last.op = "cache_ok" /\ batch = newTracks
                             THEN 2 ELSE 1)
       ELSE /\ UNCHANGED cachedTracks
            /\ last' = Event("cache_fail", 0, 0)
    /\ UNCHANGED <<sound, currentTrack, isPlaying, position, duration, playbackLock,
                   engine, nextHandle, tasks, excl, mounted, player>>

\* cacheTracks(newTracks) called on its own
CacheTracks(newTracks, o) ==
    /\ CacheTracksSteps(newTracks, o)
    /\ UNCHANGED browse

NextCache ==
    \E newTracks \in Batches, o \in {"ok", "getFail", "setFail"} :
        CacheTracks(newTracks, o)

SpecCache == Init /\ [][NextCache]_vars

\* ---- fetchTracks ----------------------------------------------------------
FetchIds == DOMAIN fetchCalls
FreeFetches == {c \in FetchIds : fetchCalls[c] = "idle"}
FreeFetch == CHOOSE c \in FreeFetches : \A d \in FreeFetches : c <= d

\* a record of a response: its audio member is a well-formed URL, or not
Record(track, audio) == [id |-> track.id, name |-> track.name, audio |-> audio]
\* the catalog's records: one per track of name 1, with a well-formed audio
\* URL, and track 1 once more without
Records ==
    {Record(t, TRUE) : t \in {u \in CatalogTracks : u.name = 1}}
        \cup {Record(CatalogTrack(1, 1), FALSE)}
Responses == UNION {[1..n -> Records] : n \in 0..MaxResults}
\* a page the catalog has filled: `validTracks.length === 100`
PageSize == MaxResults

\* the names a query and the genres let through: none, or all
Names == {t.name : t \in CatalogTracks}
Queries == {{}, Names}

\* list.filter(keeps)
RECURSIVE Filter(_, _)
Filter(list, keeps) ==
    IF Len(list) = 0 THEN <<>>
    ELSE (IF list[1] \in keeps THEN <<list[1]>> ELSE <<>>) \o Filter(Tail(list), keeps)

\* validTracks of fetchTracks: the records with a well-formed audio URL,
\* mapped, less those whose id is among the ids of the tracks shown
ValidTracks(results, shown) ==
    LET valid == Filter(results, {r \in Records : r.audio})
        mapped == [k \in 1..Len(valid) |-> CatalogTrack(valid[k].id, valid[k].name)]
        trackIds == {shown[k].id : k \in 1..Len(shown)}
    IN Filter(mapped, {t \in CatalogTracks : t.id \notin trackIds})

\* loadCachedTracks(query, genres): the cached tracks the query and the
\* genres let through become the list shown; without an item nothing changes
LoadCachedTracks(keep) ==
    IF cachedTracks.present
    THEN tracks' = Filter(JSONparse(cachedTracks.text),
                          {t \in CatalogTracks : t.name \in keep})
    ELSE UNCHANGED tracks

\* the closure of a fetchTracks created in the current render
Closure(append) ==
    Args(append, pageOffset, tracks)

\* fetchTracks(...) up to its first await, the value of fetchRef.current
\* being ref: offline it reads the cache and returns; with the flag set it
\* returns; otherwise it sets the flag and sends the request
FetchEnter(connected, keep, ref, args, op) ==
    IF ~connected
    THEN /\ fetchRef' = ref
         /\ LoadCachedTracks(keep)
         /\ last' = Event("fetch_offline", 0, 0)
         /\ UNCHANGED <<fetchCalls, fetchArgs, lastRequest>>
    ELSE IF ref
    THEN /\ fetchRef' = ref
         /\ last' = Event("fetch_busy", 0, 0)
         /\ UNCHANGED <<fetchCalls, fetchArgs, lastRequest, tracks>>
    ELSE /\ FreeFetches # {}
         /\ fetchRef' = TRUE
         /\ fetchCalls' = [fetchCalls EXCEPT ![FreeFetch] = "request"]
         /\ fetchArgs' = [fetchArgs EXCEPT ![FreeFetch] = args]
         /\ lastRequest' = args.offset
         /\ last' = Event(op, FreeFetch, 0)
         /\ UNCHANGED tracks

\* what no step of fetchTracks touches (cacheTracks aside)
fetchFrame ==
    <<pb, playbackLock, engine, nextHandle, tasks, excl, mounted, player>>

\* a screen calls fetchTracks(false, ...): the initial effect, onRefresh, the
\* search and genre effect; the latter two reset pageOffset and hasMoreTracks
FetchTracks(connected, keep) ==
    /\ pageOffset' = 0
    /\ hasMoreTracks' = TRUE
    /\ FetchEnter(connected, keep, fetchRef, Closure(FALSE), "fetch_request")
    /\ UNCHANGED <<backoffs, backoffArgs, pendingTracks, cachedTracks, batch,
                   fetchFrame>>

\* loadMoreTracks(): setPageOffset(prev => prev + 100), fetchTracks(true, ...)
LoadMoreTracks(connected, keep) ==
    IF fetchRef \/ ~hasMoreTracks
    THEN /\ last' = Event("more_skip", 0, 0)
         /\ UNCHANGED <<browse, cachedTracks, batch, fetchFrame>>
    ELSE /\ pageOffset < MaxPages
         /\ pageOffset' = pageOffset + 1
         /\ FetchEnter(connected, keep, fetchRef, Closure(TRUE), "more_request")
         /\ UNCHANGED <<hasMoreTracks, backoffs, backoffArgs, pendingTracks,
                        cachedTracks, batch, fetchFrame>>

\* getOnlineTracks settles: with the results, with status 429, or with
\* another error.  On 429 the catch block sets the timer of the re-fetch.
FetchResponse(c, r, results) ==
    /\ fetchCalls[c] = "request"
    /\ r = "429" => backoffs < MaxBackoffs
    /\ r # "ok" => results = <<>>
    /\ fetchCalls' = [fetchCalls EXCEPT ![c] = IF r = "ok" THEN "caching" ELSE "fallback"]
    /\ fetchArgs' = [fetchArgs EXCEPT ![c].results = results]
    /\ backoffs' = IF r = "429" THEN backoffs + 1 ELSE backoffs
    /\ backoffArgs' = IF r = "429" THEN Append(backoffArgs, fetchArgs[c])
                      ELSE backoffArgs
    /\ last' = Event(IF r = "ok" THEN "fetch_results"
                     ELSE IF r = "429" THEN "fetch_429" ELSE "fetch_error", c, 0)
    /\ UNCHANGED <<fetchRef, tracks, pendingTracks, pageOffset, hasMoreTracks,
                   lastRequest, cachedTracks, batch, fetchFrame>>

\* newTracks of fetchTracks
NewTracks(args) ==
    IF args.append THEN args.tracks \o ValidTracks(args.results, args.tracks)
    ELSE ValidTracks(args.results, args.tracks)

\* fetchTracks after cacheTracks has returned: debounceTrackUpdate,
\* setHasMoreTracks, and the finally block
FetchFinish(c) ==
    /\ pendingTracks' = Update(NewTracks(fetchArgs[c]))
    /\ hasMoreTracks' =
         (Len(ValidTracks(fetchArgs[c].results, fetchArgs[c].tracks)) = PageSize)
    /\ fetchCalls' = [fetchCalls EXCEPT ![c] = "idle"]
    /\ fetchArgs' = [fetchArgs EXCEPT ![c] = NoArgs]
    /\ fetchRef' = FALSE

\* cacheTracks(validTracks) up to the end of its getItem: the item read, or
\* a rejection, which ends cacheTracks in its catch block
FetchCacheRead(c, ok) ==
    /\ fetchCalls[c] = "caching"
    /\ batch' = ValidTracks(fetchArgs[c].results, fetchArgs[c].tracks)
    /\ IF ok
       THEN /\ fetchCalls' = [fetchCalls EXCEPT ![c] = "merging"]
            /\ fetchArgs' = [fetchArgs EXCEPT ![c].existing = Existing(cachedTracks)]
            /\ last' = Event("fetch_cache_read", c, 0)
            /\ UNCHANGED <<fetchRef, pendingTracks, hasMoreTracks>>
       ELSE /\ FetchFinish(c)
            /\ last' = Event("fetch_uncached", c, 0)
    /\ UNCHANGED <<backoffs, backoffArgs, tracks, pageOffset, lastRequest,
                   cachedTracks, fetchFrame>>

\* the merge and setItem of cacheTracks, then the rest of fetchTracks
FetchCacheWrite(c, ok) ==
    /\ fetchCalls[c] = "merging"
    /\ IF ok
       THEN /\ cachedTracks' =
                 Item(JSONstringify(Dedupe(fetchArgs[c].existing \o ValidTracks(fetchArgs[c].results, fetchArgs[c].tracks))))
            /\ last' = Event("fetch_cached", c, 0)
       ELSE /\ UNCHANGED cachedTracks
            /\ last' = Event("fetch_uncached", c, 0)
    /\ FetchFinish(c)
    /\ UNCHANGED <<backoffs, backoffArgs, tracks, pageOffset, lastRequest,
                   batch, fetchFrame>>

\* await loadCachedTracks(...) of the catch block, then the finally block
FetchFallback(c, keep) ==
    /\ fetchCalls[c] = "fallback"
    /\ LoadCachedTracks(keep)
    /\ fetchCalls' = [fetchCalls EXCEPT ![c] = "idle"]
    /\ fetchArgs' = [fetchArgs EXCEPT ![c] = NoArgs]
    /\ fetchRef' = FALSE
    /\ last' = Event("fetch_failed", c, 0)
    /\ UNCHANGED <<backoffs, backoffArgs, pendingTracks, pageOffset, hasMoreTracks,
                   lastRequest, cachedTracks, batch, fetchFrame>>

\* setTimeout(() => { fetchRef.current = false; fetchTracks(...) }, 5000):
\* the fetchTracks of the render the rate-limited call was created in
BackoffTimer(connected, keep) ==
    /\ backoffs > 0
    /\ backoffs' = backoffs - 1
    /\ backoffArgs' = Tail(backoffArgs)
    /\ FetchEnter(connected, keep, FALSE,
                  [Head(backoffArgs) EXCEPT !.results = <<>>, !.existing = <<>>],
                  "fetch_again")
    /\ UNCHANGED <<pendingTracks, pageOffset, hasMoreTracks, cachedTracks, batch,
                   fetchFrame>>

\* the callback of debounceTrackUpdate's timer: setTracks(newTracks)
UpdateTimer ==
    /\ pendingTracks.set
    /\ tracks' = pendingTracks.list
    /\ pendingTracks' = NoUpdate
    /\ last' = Event("tracks_updated", 0, 0)
    /\ UNCHANGED <<fetchRef, fetchCalls, backoffs, pageOffset, hasMoreTracks,
                   fetchArgs, backoffArgs, lastRequest, cachedTracks, batch,
                   fetchFrame>>

\* clearCache(): removeItem, then setTracks([]); a rejection of removeItem
\* ends in the catch block
ClearCache(ok) ==
    /\ IF ok
       THEN /\ cachedTracks' = NoItem
            /\ tracks' = <<>>
            /\ last' = Event("clear_ok", 0, 0)
       ELSE /\ UNCHANGED <<cachedTracks, tracks>>
            /\ last' = Event("clear_fail", 0, 0)
    /\ UNCHANGED <<fetchRef, fetchCalls, backoffs, pendingTracks, pageOffset,
                   hasMoreTracks, fetchArgs, backoffArgs, lastRequest, batch,
                   fetchFrame>>

\* the fetchTracks calls of a connected screen whose query lets no cached
\* track through, their re-fetches, and clearCache
NextFetch ==
    \/ FetchTracks(TRUE, {})
    \/ \E c \in FetchIds, r \in {"ok", "429", "error"}, results \in Responses :
          FetchResponse(c, r, results)
    \/ \E c \in FetchIds, ok \in BOOLEAN : FetchCacheRead(c, ok)
    \/ \E c \in FetchIds, ok \in BOOLEAN : FetchCacheWrite(c, ok)
    \/ \E c \in FetchIds : FetchFallback(c, {})
    \/ BackoffTimer(TRUE, {})
    \/ \E ok \in BOOLEAN : ClearCache(ok)

SpecFetch == Init /\ [][NextFetch]_vars

\* ---- the listing ---------------------------------------------------------
\* one fetchTracks call at a time, loadMoreTracks and the debounce timer
\* included, online and offline, without rate limiting
InitListing ==
    /\ sound = 0
    /\ currentTrack = NullTrack
    /\ isPlaying = FALSE
    /\ position = 0
    /\ duration = 0
    /\ playbackLock = FALSE
    /\ engine = [h \in 1..MaxHandles |-> NotLoaded]
    /\ nextHandle = 1
    /\ tasks = [i \in 1..MaxTasks |-> NoTask]
    /\ last = Event("init", 0, 0)
    /\ excl = 0
    /\ mounted = TRUE
    /\ cachedTracks = NoItem
    /\ batch = <<>>
    /\ route = "play"
    /\ trackData = NoTrackData
    /\ playerSound = 0
    /\ loadRetry = -1
    /\ trackListData = <<>>
    /\ loadTarget = NoTrackData
    /\ fetchRef = FALSE
    /\ fetchCalls = [c \in 1..MaxListFetches |-> "idle"]
    /\ backoffs = 0
    /\ tracks = <<>>
    /\ pendingTracks = NoUpdate
    /\ pageOffset = 0
    /\ hasMoreTracks = TRUE
    /\ fetchArgs = [c \in 1..MaxListFetches |-> NoArgs]
    /\ backoffArgs = <<>>
    /\ lastRequest = -1

NextListing ==
    \/ \E connected \in BOOLEAN, keep \in Queries : FetchTracks(connected, keep)
    \/ \E connected \in BOOLEAN, keep \in Queries : LoadMoreTracks(connected, keep)
    \/ \E c \in FetchIds, r \in {"ok", "error"}, results \in Responses :
          FetchResponse(c, r, results)
    \/ \E c \in FetchIds, ok \in BOOLEAN : FetchCacheRead(c, ok)
    \/ \E c \in FetchIds, ok \in BOOLEAN : FetchCacheWrite(c, ok)
    \/ \E c \in FetchIds, keep \in Queries : FetchFallback(c, keep)
    \/ UpdateTimer

SpecListing == InitListing /\ [][NextListing]_vars

\* ---- a current track outside its list -----------------------------------
\* play(track, trackList) with a list that does not hold the track, with one
\* that does, and with none
StrayInputs ==
    { <<TrackB, <<TrackA, TrackC>>>>,
      <<TrackB, <<TrackA>>>>,
      <<TrackB, <<TrackA, TrackB, TrackC>>>>,
      <<TrackB, <<>>>> }

NextStray ==
    \/ \E in \in StrayInputs : Play(in[1], in[2])
    \/ \E i \in TaskIds, o \in {"none", "ok", "statusFail", "stopFail", "unloadFail"} :
          PlayTeardown(i, o)
    \/ \E i \in TaskIds, ok \in BOOLEAN : PlayLoad(i, ok)
    \/ \E i \in TaskIds, ok \in BOOLEAN : PlayStatus(i, ok)
    \/ \E i \in TaskIds, ok \in BOOLEAN : PlayStart(i, ok)
    \/ \E i \in TaskIds : RetryTimer(i)
    \/ PlayNext
    \/ PlayPrevious

SpecStray == Init /\ [][NextStray]_vars

\* ---- the player screen ----------------------------------------------------
\* isValidTrack of the browse screen: the track has an identifier and its
\* audio is an object whose uri parses as a URL
isValidTrack(track) ==
    /\ track.id # 0
    /\ Truthy(track.audio)
    /\ track.audio.kind = "object"
    /\ track.audio.uri # NoUri
    /\ isValidUrl(track.audio.uri)

\* the now-playing bar of the browse screen: router.push to the player with
\* the current track and the list on the screen; the player mounts, parses
\* the parameters into trackData and trackListData, and its effect on
\* trackData calls loadSound(trackData)
OpenPlayer ==
    /\ route = "play"
    /\ isValidTrack(currentTrack)
    /\ route' = "player"
    /\ trackData' = Track(currentTrack.id, currentTrack.audio)
    /\ trackListData' = currentTrack.trackList
    /\ loadTarget' = Track(currentTrack.id, currentTrack.audio)
    /\ loadRetry' = 0
    /\ last' = Event("player_open", 0, 0)
    /\ UNCHANGED <<pb, playbackLock, engine, nextHandle, tasks, excl,
                   mounted, cachedTracks, batch, playerSound, browse>>

\* the states the player screen's loadSound leaves the engine in
LoadSoundOutcomes == {"ok", "loadFail", "statusFail", "startFail"}

\* loadSound(newTrackData, retryCount) of the player screen: a handle of its
\* own, loaded and started; setSound follows the load; the catch block
\* starts the call again, twice at most, and releases nothing.  On success
\* setTrackData(newTrackData) follows, and with another track than before
\* the effect on trackData calls loadSound once more.
LoadSound(o) ==
    /\ route = "player"
    /\ loadRetry >= 0
    /\ nextHandle \in Handles
    /\ nextHandle' = nextHandle + 1
    /\ engine' =
         IF o = "loadFail" THEN engine
         ELSE [engine EXCEPT ![nextHandle] =
                 [Loaded(AudioSource(loadTarget).uri) EXCEPT !.playing = (o = "ok")]]
    /\ playerSound' = IF o = "loadFail" THEN playerSound ELSE nextHandle
    /\ trackData' = IF o = "ok" THEN loadTarget ELSE trackData
    /\ loadRetry' = IF o = "ok" THEN (IF loadTarget = trackData THEN -1 ELSE 0)
                    ELSE IF loadRetry >= MaxRetries THEN -1 ELSE loadRetry + 1
    /\ last' = Event(IF o = "ok" THEN "player_loaded"
                     ELSE IF loadRetry < MaxRetries THEN "player_retry"
                     ELSE "player_giveup", 0, 0)
    /\ UNCHANGED <<pb, playbackLock, tasks, excl, mounted, cachedTracks, batch,
                   route, trackListData, loadTarget, browse>>

\* what playNext and playPrevious of the player screen leave alone
playerFrame ==
    <<pb, playbackLock, engine, nextHandle, tasks, excl, mounted, cachedTracks,
      batch, route, trackData, playerSound, trackListData, browse>>

\* playNext of the player screen: nothing with an empty list or while
\* loading; otherwise loadSound with the entry after the index found
PlayerPlayNext ==
    /\ route = "player"
    /\ loadRetry <= 0
    /\ IF Len(trackListData) = 0 \/ loadRetry = 0
       THEN /\ last' = Event("player_next_skip", 0, 0)
            /\ UNCHANGED <<loadTarget, loadRetry>>
       ELSE LET currentIndex == findIndex(trackListData, trackData.id) IN
            IF currentIndex < Len(trackListData) - 1
            THEN /\ loadTarget' = trackListData[currentIndex + 2]
                 /\ loadRetry' = 0
                 /\ last' = Event("player_next", 0, 0)
            ELSE /\ last' = Event("player_next_end", 0, 0)
                 /\ UNCHANGED <<loadTarget, loadRetry>>
    /\ UNCHANGED playerFrame

\* playPrevious of the player screen
PlayerPlayPrevious ==
    /\ route = "player"
    /\ loadRetry <= 0
    /\ IF Len(trackListData) = 0 \/ loadRetry = 0
       THEN /\ last' = Event("player_previous_skip", 0, 0)
            /\ UNCHANGED <<loadTarget, loadRetry>>
       ELSE LET currentIndex == findIndex(trackListData, trackData.id) IN
            IF currentIndex > 0
            THEN /\ loadTarget' = trackListData[currentIndex]
                 /\ loadRetry' = 0
                 /\ last' = Event("player_previous", 0, 0)
            ELSE /\ last' = Event("player_previous_end", 0, 0)
                 /\ UNCHANGED <<loadTarget, loadRetry>>
    /\ UNCHANGED playerFrame

\* the browse screen plays and stops; the player screen, once on top, loads
NextPlayer ==
    \/ \E in \in PlayInputs : route = "play" /\ Play(in[1], in[2])
    \/ \E i \in TaskIds, o \in {"none", "ok", "statusFail", "stopFail", "unloadFail"} :
          PlayTeardown(i, o)
    \/ \E i \in TaskIds, ok \in BOOLEAN : PlayLoad(i, ok)
    \/ \E i \in TaskIds, ok \in BOOLEAN : PlayStatus(i, ok)
    \/ \E i \in TaskIds, ok \in BOOLEAN : PlayStart(i, ok)
    \/ \E i \in TaskIds : RetryTimer(i)
    \/ \E o \in {"none", "ok", "statusFail", "stopFail", "unloadFail"} :
          route = "play" /\ Stop(o)
    \/ OpenPlayer
    \/ \E o \in LoadSoundOutcomes : LoadSound(o)

SpecPlayer == InitSolo /\ [][NextPlayer]_vars

\* ---- the player screen's playNext and playPrevious -----------------------
\* the track lists and tracks the route parameters may carry
TrackLists == UNION {[1..n -> {TrackA, TrackB, TrackC}] : n \in 0..MaxList}

\* the player screen just mounted on a track and a list: its effect has
\* called loadSound(trackData)
InitTargets ==
    /\ sound = 0
    /\ currentTrack = NullTrack
    /\ isPlaying = FALSE
    /\ position = 0
    /\ duration = 0
    /\ playbackLock = FALSE
    /\ engine = [h \in 1..MaxHandles |-> NotLoaded]
    /\ nextHandle = 1
    /\ tasks = [i \in 1..MaxTasks |-> NoTask]
    /\ last = Event("init", 0, 0)
    /\ excl = 0
    /\ mounted = TRUE
    /\ cachedTracks = NoItem
    /\ batch = <<>>
    /\ route = "player"
    /\ trackData \in {TrackA, TrackB, TrackC}
    /\ playerSound = 0
    /\ loadRetry = 0
    /\ trackListData \in TrackLists
    /\ loadTarget = trackData
    /\ fetchRef = FALSE
    /\ fetchCalls = [c \in 1..MaxFetches |-> "idle"]
    /\ backoffs = 0
    /\ tracks = <<>>
    /\ pendingTracks = NoUpdate
    /\ pageOffset = 0
    /\ hasMoreTracks = TRUE
    /\ fetchArgs = [c \in 1..MaxFetches |-> NoArgs]
    /\ backoffArgs = <<>>
    /\ lastRequest = -1

NextTargets ==
    \/ PlayerPlayNext
    \/ PlayerPlayPrevious
    \/ \E o \in LoadSoundOutcomes : LoadSound(o)

SpecTargets == InitTargets /\ [][NextTargets]_vars

\* ---- properties ---------------------------------------------------------
LoadedHandles == {h \in Handles : engine[h].loaded}

\* stop's post-condition
Idle ==
    /\ sound = 0
    /\ currentTrack = NullTrack
    /\ ~isPlaying
    /\ position = 0
    /\ duration = 0

\* the names of the steps of play tasks
AttemptPcs == {"stopping", "loading", "status", "starting"}

\* C1: in every reachable state at most one engine handle is loaded and not
\* yet released, and the step in which a play creates its new handle leaves
\* no other handle loaded (the previous one was stopped and released first)
C1_SingleLiveHandle ==
    [][ /\ Cardinality(LoadedHandles') <= 1
        /\ (nextHandle' # nextHandle => LoadedHandles' = {}) ]_vars

\* C2: at the step in which a play(t, list) completes successfully, the
\* current track has the identifier of t, the list attached to it is the list
\* that was passed, and position is 0
C2_SuccessfulPlayState ==
    [][ \A i \in TaskIds :
          (last'.op = "play_ok" /\ last'.i = i) =>
              /\ currentTrack'.id = tasks[i].track.id
              /\ currentTrack'.trackList = tasks[i].list
              /\ position' = 0 ]_vars

C2_Witness ==
    /\ last.op = "play_ok"
    /\ currentTrack.id = TrackB.id
    /\ currentTrack.trackList = <<TrackA, TrackB, TrackC>>
    /\ position = 0

\* a track without a usable audio reference: audio absent, or its URI absent
\* or not a well-formed absolute URL
Unusable(track) ==
    ~Truthy(track.audio) \/ InvalidSource(AudioSource(track))

\* C3: for every track without a usable audio reference, no step of
\* play(t, list) creates an engine handle or changes the playback state
\* (current track, playing flag, position, duration, recorded handle)
C3_UnusableTrackNoEffect ==
    [][ /\ (last'.op = "play_noaudio" => UNCHANGED <<pb, nextHandle>>)
        /\ \A i \in TaskIds :
             (last'.i = i /\ tasks[i].pc \in AttemptPcs /\ Unusable(tasks[i].track))
                 => UNCHANGED <<pb, nextHandle>> ]_vars

\* C4: stop() with no handle recorded makes no engine call and ends in the
\* state {no current track, not playing, position 0, duration 0, no handle};
\* a stop() that follows a stop() leaves that state as it is
C4_StopWithoutHandle ==
    [][ /\ (last'.op = "stop_nohandle" =>
               Idle' /\ last'.rel = 0 /\ engine' = engine)
        /\ ((last.op \in {"stop", "stop_nohandle"} /\ last'.op = "stop_nohandle")
               => (Idle /\ pb' = pb)) ]_vars

C4_Witness ==
    /\ last.op = "stop_nohandle"
    /\ Idle

\* C5: stop() with a recorded handle ends, for every outcome of the engine
\* calls, in the state {no current track, not playing, position 0, duration
\* 0, no recorded handle}, and has called release on the handle at least once
C5_StopWithHandle ==
    [][ (last'.op = "stop" /\ sound # 0) =>
           /\ Idle'
           /\ last'.rel >= 1
           /\ ~engine'[sound].loaded ]_vars

C5_Witness ==
    /\ last.op = "stop"
    /\ last.rel = 1
    /\ Idle

\* C6: when loadAsync fails on all three attempts of one play(t, list) and
\* nothing but that play has acted since it was accepted, the third failure
\* leaves no current track, no recorded handle and no loaded engine handle
C6_ThreeLoadFailures ==
    [][ \A i \in TaskIds :
          ( /\ last'.op = "play_giveup" /\ last'.i = i
            /\ excl' = i
            /\ tasks[i].pc = "loading" /\ tasks[i].allLoad )
          => ( /\ currentTrack' = NullTrack
               /\ sound' = 0
               /\ LoadedHandles' = {} ) ]_vars

\* C7: a play makes at most three attempts; it waits for a retry only out of
\* a failed attempt, and a failure of the third attempt ends it
C7_AtMostThreeAttempts ==
    [][ \A i \in TaskIds :
          /\ tasks'[i].attempts <= 3
          /\ (tasks'[i].pc = "retrywait" /\ tasks[i].pc # "retrywait")
                => (tasks[i].pc \in AttemptPcs /\ last'.op = "play_retry")
          /\ (tasks[i].attempts = 3 /\ tasks[i].pc \in AttemptPcs
                 /\ tasks'[i].pc \notin AttemptPcs)
                => tasks'[i] = NoTask ]_vars

C7_Witness ==
    /\ last.op = "play_giveup"
    /\ \A i \in TaskIds : tasks[i] = NoTask

\* C8: playNext() (playPrevious()) called with the current track at index k
\* of its attached list passes that list and the current track on to play,
\* and when that play succeeds, entry k+1 (k-1) of the list, where it exists,
\* is the current track with the same list attached
C8_AdjacentTrack ==
    [][ \A i \in TaskIds :
          /\ (last'.op \in {"next_enter", "previous_enter"} /\ last'.i = i)
                => ( /\ tasks'[i].list = currentTrack.trackList
                     /\ tasks'[i].cur = currentTrack.id )
          /\ (last'.op = "play_ok" /\ last'.i = i)
                => \A k \in 1..Len(tasks[i].list) :
                     (tasks[i].list[k].id = tasks[i].cur) =>
                        /\ (tasks[i].via = "next" /\ k + 1 <= Len(tasks[i].list))
                              => ( /\ currentTrack'.id = tasks[i].list[k + 1].id
                                   /\ currentTrack'.audio = tasks[i].list[k + 1].audio
                                   /\ currentTrack'.trackList = tasks[i].list )
                        /\ (tasks[i].via = "previous" /\ k - 1 >= 1)
                              => ( /\ currentTrack'.id = tasks[i].list[k - 1].id
                                   /\ currentTrack'.audio = tasks[i].list[k - 1].audio
                                   /\ currentTrack'.trackList = tasks[i].list ) ]_vars

C8_Witness ==
    /\ last.op = "play_ok"
    /\ currentTrack.id = TrackC.id
    /\ currentTrack.trackList = <<TrackA, TrackB, TrackC>>

NextOps == {"next_skip", "next_end", "next_enter", "next_noaudio", "next_locked"}
PreviousOps ==
    {"previous_skip", "previous_end", "previous_enter", "previous_noaudio",
     "previous_locked"}
AtLastEntry(ct) ==
    /\ Len(ct.trackList) > 0
    /\ ct.trackList[Len(ct.trackList)].id = ct.id
AtFirstEntry(ct) ==
    /\ Len(ct.trackList) > 0
    /\ ct.trackList[1].id = ct.id

\* C9: playNext() with the current track at the last entry of its list, and
\* playPrevious() with it at the first entry, change nothing: playback state,
\* lock, engine and tasks are as before, and no play is started
C9_NoAdjacentTrack ==
    [][ ( \/ (last'.op \in NextOps /\ AtLastEntry(currentTrack))
          \/ (last'.op \in PreviousOps /\ AtFirstEntry(currentTrack)) )
        => UNCHANGED <<pb, playbackLock, engine, nextHandle, tasks>> ]_vars

C9_Witness ==
    /\ last.op = "next_end"
    /\ AtLastEntry(currentTrack)
    /\ isPlaying

\* C10: seek(value) with no handle recorded makes no engine call and changes
\* neither position nor any other state, for every value
C10_SeekWithoutHandle ==
    [][ (last'.op \in {"seek", "seek_nohandle"} /\ sound = 0)
        => UNCHANGED <<pb, playbackLock, engine, nextHandle, tasks>> ]_vars

C10_Witness ==
    /\ last.op = "seek_nohandle"
    /\ sound = 0
    /\ position = MaxPos

\* the number of entries of a stored text that carry identifier id
RECURSIVE EntriesWithId(_, _)
EntriesWithId(list, id) ==
    IF Len(list) = 0 THEN 0
    ELSE (IF list[1].id = id THEN 1 ELSE 0) + EntriesWithId(Tail(list), id)

\* C11: a cacheTracks run with the batch of the successful run just before
\* it leaves the cache as that run left it, and after every successful run
\* the cache holds exactly one entry for each identifier of the batch
C11_CacheMergeIdempotent ==
    [][ /\ (last.op = "cache_ok" /\ last'.op \in {"cache_ok", "cache_fail"}
               /\ batch' = batch)
            => cachedTracks' = cachedTracks
        /\ (last'.op = "cache_ok")
            => \A k \in 1..Len(batch') :
                 EntriesWithId(JSONparse(cachedTracks'.text), batch'[k].id) = 1 ]_vars

C11_Witness ==
    /\ last.op = "cache_ok"
    /\ last.rel = 2
    /\ Len(batch) = 2
    /\ batch[1].id = batch[2].id
    /\ batch[1].name # batch[2].name
    /\ Len(cachedTracks.text) = 2

\* the initial (non-retry) calls of play that have passed the guard and have
\* not returned, and the calls (initial or retry) that are running
InitialCallsInFlight == {i \in TaskIds : tasks[i].pc \in AttemptPcs /\ tasks[i].rc = 0}
RunningCalls == {i \in TaskIds : tasks[i].pc \in AttemptPcs}
EnterOps == {"play_enter", "next_enter", "previous_enter"}

\* C12: while an initial call of play is in flight no other call from a
\* screen passes the guard (it takes no step that calls stop, creates a
\* handle or changes the playback state), and at most one call of play is
\* running at any time
C12_OnePlayInFlight ==
    [][ /\ (InitialCallsInFlight # {} => last'.op \notin EnterOps)
        /\ Cardinality(RunningCalls') <= 1 ]_vars

\* C13: the unmount of the provider stops and releases the handle that is
\* recorded at that moment: after it that handle is neither loaded nor playing
C13_UnmountReleases ==
    [][ (last'.op = "unmount" /\ sound # 0) =>
           /\ last'.rel >= 1
           /\ ~engine'[sound].loaded
           /\ ~engine'[sound].playing ]_vars

\* C14: the step in which an attempt of play fails (a retry is scheduled or
\* the play gives up) leaves the handle that the attempt created not loaded
C14_FailedAttemptReleases ==
    [][ \A i \in TaskIds :
          (last'.op \in {"play_retry", "play_giveup"} /\ last'.i = i
              /\ tasks[i].h # 0)
          => ~engine'[tasks[i].h].loaded ]_vars

\* the coordinator's state as the state machine names it: Loading while a
\* play attempt or its retry chain is in progress, otherwise Idle without
\* current track and handle, Playing or Paused with a recorded handle
Phase ==
    IF \E i \in TaskIds : tasks[i] # NoTask THEN "Loading"
    ELSE IF sound # 0 THEN (IF isPlaying THEN "Playing" ELSE "Paused")
    ELSE IF currentTrack = NullTrack THEN "Idle"
    ELSE "Other"

\* the transitions of the state machine
MachineTransitions ==
    { <<"Idle", "Loading">>, <<"Loading", "Playing">>,
      <<"Playing", "Paused">>, <<"Paused", "Playing">>,
      <<"Playing", "Idle">>, <<"Paused", "Idle">>, <<"Loading", "Idle">> }

\* C15: every step that changes the state of the machine is one of its
\* transitions; Playing or Paused becomes Idle only by stop, and Loading
\* becomes Idle only when a play gives up after its last retry
C15_StateMachine ==
    [][ Phase' # Phase =>
          /\ <<Phase, Phase'>> \in MachineTransitions
          /\ (Phase \in {"Playing", "Paused"} /\ Phase' = "Idle") => last'.op = "stop"
          /\ (Phase = "Loading" /\ Phase' = "Idle") => last'.op = "play_giveup" ]_vars

\* C16: a play of a track whose audio reference resolves to a missing or
\* malformed URI never waits for a retry and never makes a second attempt
C16_InvalidSourceNoRetry ==
    [][ \A i \in TaskIds :
          (tasks'[i] # NoTask /\ InvalidSource(AudioSource(tasks'[i].track)))
          => ( /\ tasks'[i].pc # "retrywait"
               /\ tasks'[i].attempts <= 1 ) ]_vars

\* C17: no operation of the coordinator ends by rejecting to its caller,
\* whatever the outcome of the engine calls it made
C17_NoFailurePropagates == ~last.threw

C17_Witness ==
    /\ last.op = "play_retry"
    /\ LoadedHandles # {}
    /\ ~last.threw

\* C18: when no call of play is running and no retry timer is pending, the
\* lock is not held
C18_LockFreeWhenQuiet ==
    (\A i \in TaskIds : tasks[i] = NoTask) => ~playbackLock

\* C19: the step in which an initial (non-retry) call of play that passed the
\* guard returns (started, or failed with its retry scheduled) leaves the
\* lock released
C19_InitialCallReleases ==
    [][ \A i \in TaskIds :
          ( /\ tasks[i].pc \in AttemptPcs /\ tasks[i].rc = 0
            /\ tasks'[i].pc \notin AttemptPcs )
          => ~playbackLock' ]_vars

C19_Witness ==
    /\ last.op = "play_retry"
    /\ \E i \in TaskIds :
          /\ last.i = i
          /\ tasks[i].pc = "retrywait"
          /\ tasks[i].rc = 0
    /\ ~playbackLock

\* C20: the step in which a retry timer fires is never a rejection by the
\* guard and does not take the lock: the lock is not held after it
C20_RetryTakesNoLock ==
    [][ \A i \in TaskIds :
          (tasks[i].pc = "retrywait" /\ tasks'[i] # tasks[i])
          => ( /\ last'.op = "play_reenter"
               /\ ~playbackLock' ) ]_vars

\* C21: a retry whose timer fires is accepted by the guard whatever the lock
\* is at that moment, so a retry of one play and a play accepted from a
\* screen in the meantime both go on to load a handle
C21_RetryNotSerialized ==
    [][ \A i \in TaskIds :
          (tasks[i].pc = "retrywait" /\ tasks'[i] # tasks[i])
          => tasks'[i].pc = "stopping" ]_vars

C21_Witness ==
    \E i, j \in TaskIds :
        /\ tasks[i].pc = "loading" /\ tasks[i].rc > 0
        /\ tasks[j].pc = "loading" /\ tasks[j].rc = 0
        /\ tasks[i].h # tasks[j].h

\* a handle is superseded once a play has torn down what came before it and
\* works with a handle it created later, or a later handle is recorded
Superseded(h) ==
    \/ sound > h
    \/ \E i \in TaskIds :
          tasks[i].pc \in {"loading", "status", "starting"} /\ tasks[i].h > h

\* C22: a status callback of a superseded handle changes neither position
\* nor duration nor the playing flag
C22_NoSupersededCallback ==
    [][ \A h \in Handles, positionMillis \in 0..MaxPos :
          (Superseded(h) /\ StatusUpdate(h, positionMillis))
          => UNCHANGED <<position, duration, isPlaying>> ]_vars

\* C23: a true playing flag implies that a current track and an engine
\* handle are recorded
C23_PlayingHasTrackAndHandle ==
    isPlaying => (currentTrack # NullTrack /\ sound # 0)

\* the steps a play in flight takes on its own: engine answers and timer
TaskOps ==
    {"play_created", "play_loaded", "play_status", "play_ok", "play_retry",
     "play_giveup", "play_reenter", "play_locked", "play_threw"}

\* C24: after a stop() from a screen, and until a screen starts the next
\* play, no step of a play that was in flight at the stop (a pending retry,
\* a load under way) takes the coordinator out of the idle state
C24_IdleAfterStop ==
    [][ \A i \in TaskIds :
          (tasks[i].stopped /\ Idle /\ last'.op \in TaskOps /\ last'.i = i)
          => Idle' ]_vars

\* the steps of the player screen
PlayerOps == {"player_open", "player_loaded", "player_retry", "player_giveup"}

\* C25: the player screen renders the coordinator's state and creates no
\* handle of its own: opening it after a play, and every step it then takes,
\* creates no handle and leaves the set of loaded handles as it was
C25_PlayerCreatesNoHandle ==
    [][ last'.op \in PlayerOps
          => (nextHandle' = nextHandle /\ LoadedHandles' = LoadedHandles) ]_vars

\* the current track carries a list that does not hold its identifier
NotInList(ct) ==
    /\ Len(ct.trackList) > 0
    /\ findIndex(ct.trackList, ct.id) = -1

\* C26: with the current track's identifier not found in its list, playNext()
\* and playPrevious() take the current index to be 0: playPrevious() changes
\* nothing and starts no play; playNext() changes nothing when the list has
\* one entry, and otherwise calls play with the second entry and the list
C26_NotFoundIsIndexZero ==
    [][ (NotInList(currentTrack) /\ ~playbackLock) =>
          /\ (last'.op \in PreviousOps \/
                (last'.op \in NextOps /\ Len(currentTrack.trackList) < 2))
                => UNCHANGED <<pb, playbackLock, engine, nextHandle, tasks>>
          /\ (last'.op \in NextOps /\ Len(currentTrack.trackList) >= 2)
                => /\ last'.op = "next_enter"
                   /\ tasks'[last'.i].track.id = currentTrack.trackList[2].id
                   /\ tasks'[last'.i].track.audio = currentTrack.trackList[2].audio
                   /\ tasks'[last'.i].list = currentTrack.trackList ]_vars

C26_Witness ==
    /\ last.op = "next_enter"
    /\ findIndex(tasks[last.i].list, tasks[last.i].cur) = -1
    /\ tasks[last.i].track.id = TrackC.id
    /\ tasks[last.i].list = <<TrackA, TrackC>>

\* nothing the coordinator holds has changed
NothingChanged == UNCHANGED <<pb, playbackLock, engine, nextHandle, tasks>>

\* the recorded handle goes from playing to paused, or from paused to playing,
\* with the flag, and nothing else changes
Transport(from, to) ==
    /\ engine[sound].loaded
    /\ isPlaying = from
    /\ engine' = [engine EXCEPT ![sound].playing = to]
    /\ isPlaying' = to
    /\ UNCHANGED <<sound, currentTrack, position, duration, playbackLock,
                   nextHandle, tasks>>

\* C27: pause() and resume() with no handle recorded change nothing; with a
\* handle, pause() either pauses the loaded engine handle and clears the flag
\* that was set, or changes nothing; resume() either starts the loaded handle
\* and sets the flag that was clear, or changes nothing; no step leaves the
\* flag and the engine apart, a failed engine call included
C27_PauseResume ==
    [][ /\ last'.op \in {"pause_nohandle", "resume_nohandle"}
              => (sound = 0 /\ NothingChanged)
        /\ last'.op = "pause"
              => (sound # 0 /\ (Transport(TRUE, FALSE) \/ NothingChanged))
        /\ last'.op = "resume"
              => (sound # 0 /\ (Transport(FALSE, TRUE) \/ NothingChanged)) ]_vars

C27_Witness ==
    /\ last.op = "pause"
    /\ currentTrack # NullTrack
    /\ sound # 0
    /\ engine[sound].loaded
    /\ ~engine[sound].playing
    /\ ~isPlaying

C29_NoListOrLocked ==
    [][ ( /\ last'.op \in NextOps \cup PreviousOps
          /\ \/ currentTrack = NullTrack
             \/ Len(currentTrack.trackList) = 0
             \/ playbackLock )
        => NothingChanged ]_vars

C29_Witness ==
    /\ last.op = "previous_skip"
    /\ playbackLock
    /\ isPlaying
    /\ Len(currentTrack.trackList) > 0
    /\ \E i \in TaskIds : tasks[i].pc = "stopping"

\* the fetchTracks calls whose request to the catalog is under way
Requests == {c \in FetchIds : fetchCalls[c] = "request"}

\* C30: at most one request to the catalog is under way at any time
C30_OneFetchInFlight == Cardinality(Requests) <= 1

\* no two entries of a track list carry the same identifier
NoDuplicateIds(list) ==
    \A k, m \in 1..Len(list) : list[k].id = list[m].id => k = m

\* C31: the cached list never holds two entries with the same identifier, and
\* a merge of cacheTracks that is written keeps every entry the cache held
\* before it, as it was
C31_CacheKeepsEntries ==
    [][ /\ NoDuplicateIds(Existing(cachedTracks'))
        /\ last'.op = "fetch_cached"
              => \A k \in 1..Len(Existing(cachedTracks)) :
                   \E m \in 1..Len(Existing(cachedTracks')) :
                      Existing(cachedTracks')[m] = Existing(cachedTracks)[k] ]_vars

\* the records of a response with a well-formed audio URL, as tracks, in the
\* order of the response
ValidRecords(results) ==
    LET valid == Filter(results, {r \in Records : r.audio})
    IN [k \in 1..Len(valid) |-> CatalogTrack(valid[k].id, valid[k].name)]

\* C32: a fetch that does not append, once its response with records R is
\* in, hands exactly the valid records of R, in the order of R, to the list
\* shown, whatever was shown before; the debounce timer then shows that list
C32_RefreshShowsResponse ==
    [][ /\ \A c \in FetchIds :
             ( /\ last'.op \in {"fetch_cached", "fetch_uncached"}
               /\ last'.i = c
               /\ ~fetchArgs[c].append )
             => pendingTracks' = Update(ValidRecords(fetchArgs[c].results))
        /\ last'.op = "tracks_updated" => tracks' = pendingTracks.list ]_vars

\* C33: a loadMoreTracks that sends a request asks for the page after the
\* page of the request sent before it
C33_LoadMoreNextPage ==
    [][ \A c \in FetchIds :
          (last'.op = "more_request" /\ last'.i = c /\ lastRequest # -1)
          => fetchArgs'[c].offset = lastRequest + 1 ]_vars

\* what the coordinator's playNext and playPrevious pick for a current track
\* with identifier id and list: the entry, or nothing
CoordinatorNext(list, id) ==
    LET currentIndex == CurrentIndex([id |-> id, trackList |-> list])
    IN IF Len(list) # 0 /\ currentIndex < Len(list) - 1
       THEN <<list[currentIndex + 2]>> ELSE <<>>
CoordinatorPrevious(list, id) ==
    LET currentIndex == CurrentIndex([id |-> id, trackList |-> list])
    IN IF Len(list) # 0 /\ currentIndex > 0
       THEN <<list[currentIndex]>> ELSE <<>>

\* C34: for every list and current track, in the list or not, the player
\* screen's playNext and playPrevious load the track the coordinator's would
\* play, and do nothing where the coordinator's do nothing
C34_PlayerPicksSameTrack ==
    [][ /\ last'.op = "player_next"
            => CoordinatorNext(trackListData, trackData.id) = <<loadTarget'>>
        /\ last'.op = "player_next_end"
            => CoordinatorNext(trackListData, trackData.id) = <<>>
        /\ last'.op = "player_previous"
            => CoordinatorPrevious(trackListData, trackData.id) = <<loadTarget'>>
        /\ last'.op = "player_previous_end"
            => CoordinatorPrevious(trackListData, trackData.id) = <<>> ]_vars

====
